---- MODULE Spec2Model ----
(***************************************************************************)
(* A model of nyuu_gui.py: the FileProcessor (split_file, PAR2 tool        *)
(* provisioning and lookup, create_par2), the NyuuDownloader (7-Zip lookup *)
(* and provisioning, extract_archive) and the upload job of NyuuGUI        *)
(* (start_upload, its worker thread run_process, the Tk callback queue and *)
(* stop_upload).                                                           *)
(*                                                                         *)
(* Three specifications share the variables:                               *)
(*   SpecSplit   one call of FileProcessor.split_file, one loop iteration  *)
(*               per step;                                                 *)
(*   SpecTools   extract_archive, check_par2 and create_par2 over a disk   *)
(*               and an installation that Init draws;                      *)
(*   SpecUpload  start_upload / run_process / stop_upload with the Tk      *)
(*               main loop and the worker threads interleaved.             *)
(***************************************************************************)
EXTENDS Integers, Sequences, FiniteSets, TLC

VARIABLES
  \* ---- FileProcessor.split_file ----
  filepath,        \* the source file: [dir, stem, suffix, size]
  chunk_size_mb,   \* the chunk size argument, in MB
  output_dir,      \* the output_dir argument, None or a directory
  split_pc,        \* "call" | "loop" | "returned" | "raised"
  f_pos,           \* f.tell(): the read position in the source
  part_num,        \* the next chunk's number
  chunks,          \* the list of chunk paths built so far
  split_ret,       \* the returned list (once split_pc = "returned")
  disk,            \* the chunk files written: a function path -> data
  \* ---- tool lookup, provisioning, extract_archive, create_par2 ----
  platform,        \* sys.platform
  local_7z,        \* the file at NyuuDownloader.local_7z_path
  par2_zip,        \* the file at work_dir / "par2cmdline.zip"
  par2_dir,        \* the directory FileProcessor.local_par2_dir
  local_par2,      \* the file at FileProcessor.local_par2_path
  ex,              \* the last extract_archive call: its inputs, steps and outcome
  par,             \* the last check_par2 / create_par2 call
  \* ---- NyuuGUI: the upload job ----
  status_label,    \* the text of the status label
  start_btn,       \* "normal" | "disabled"
  stop_btn,        \* "normal" | "disabled"
  nyuu_process,    \* self.nyuu_process: NoProc (None) or the number of a process
  proc,            \* the poster processes started: state, exit code, output
  worker,          \* the run_process threads: one per job, with its position
  after_queue,     \* the callbacks given to root.after(0, ...), oldest first
  console,         \* the poster's lines and the job reports log_message has written
  main_pc,         \* the Tk main thread: "idle" or inside stop_upload
  jobs,            \* the number of upload jobs started (threads created)
  \* ---- NyuuGUI.download_nyuu and NyuuDownloader.download_and_setup ----
  download_btn,    \* "normal" | "disabled"
  dthread,         \* the download_thread threads: one per click, with its position
  staged,          \* the files download_file writes in download_dir, by name
  dl_after,        \* the download_btn callbacks given to root.after(0, ...)
  \* ---- NyuuDownloader.get_asset_for_os ----
  asset,           \* one call: the release's assets, the selector, the result
  \* ---- NyuuGUI.start_upload, from the settings to the thread it starts ----
  settings,        \* the fields of the form and the selected files
  prep_env,        \* what the files and the PAR2 tool do during preparation
  started,         \* what one start_upload call did
  shown,           \* what one view_command call displayed
  \* ---- NyuuGUI.toggle_ssl: the server form ----
  port_var,        \* the text of the port field
  ssl_var,         \* the "Use SSL/TLS" check box
  form_log,        \* the clicks and edits so far: the port before and after each
  \* ---- process_files_before_upload: the split loop over the selection ----
  files_listbox,   \* the selected source files
  split_size_var,  \* the chunk size field, in MB
  split_output_var,\* the output directory field, None when empty
  prep_run,        \* the loop's position: the file, the read position, the part
  prep_disk,       \* the chunk files the run has written: path -> data
  processed_files  \* the list the run builds: each path with the data written

split_vars == <<filepath, chunk_size_mb, output_dir, split_pc, f_pos, part_num,
                chunks, split_ret, disk>>

tool_vars == <<platform, local_7z, par2_zip, par2_dir, local_par2, ex, par>>

upload_vars == <<status_label, start_btn, stop_btn, nyuu_process, proc, worker,
                 after_queue, console, main_pc, jobs>>

download_vars == <<download_btn, dthread, staged, dl_after>>

asset_vars == <<asset>>

start_vars == <<settings, prep_env, started, shown>>

form_vars == <<port_var, ssl_var, form_log>>

prep_vars == <<files_listbox, split_size_var, split_output_var, prep_run, prep_disk,
               processed_files>>

vars == <<split_vars, tool_vars, upload_vars, download_vars, asset_vars, start_vars,
          form_vars, prep_vars>>

None == "None"

----------------------------------------------------------------------------
(* Bounds of the model. *)

MaxFileMB == 3
MaxChunkMB == 3
BigFileMB == 999

----------------------------------------------------------------------------
(* FileProcessor.split_file *)

\* 1024 * 1024: the MB to bytes conversion of split_file.
MiB == 1024 * 1024

\* work_dir of FileProcessor.__init__.
work_dir == <<"processed_files">>

\* The source files a call may be given: two directories, one name, sizes around
\* the multiples of one MB, and one large file.
FileSizes == {k * MiB + r : k \in 0..MaxFileMB, r \in {0, 1, MiB - 1}}

SourceFiles ==
  {[dir |-> <<d>>, stem |-> "movie", suffix |-> ".mkv", size |-> s] :
      d \in {"dirA", "dirB"}, s \in FileSizes}
    \cup {[dir |-> <<"dirA">>, stem |-> "movie", suffix |-> ".mkv",
           size |-> BigFileMB * MiB + 1]}

\* Path.name of a source file.
NameOf(fp) == <<fp.stem, fp.suffix>>

\* The bytes of a file are named by where they come from: [src, off, len] is the
\* len bytes at offset off of the source file src.
NoPath == [dir |-> <<>>, name |-> <<>>]

EmptyData == [src |-> NoPath, off |-> 0, len |-> 0]

Norm(d) == IF d.len = 0 THEN EmptyData ELSE d

SourcePath(fp) == [dir |-> fp.dir, name |-> NameOf(fp)]

DataOf(fp) == Norm([src |-> SourcePath(fp), off |-> 0, len |-> fp.size])

\* f.read(n) at position pos of a file of the given size: at most n bytes, fewer
\* at the end of the file, none after it.
ReadLen(size, pos, n) == IF size - pos < n THEN size - pos ELSE n

\* The characters of the decimal digits 0..9.
DigitChar == <<"0", "1", "2", "3", "4", "5", "6", "7", "8", "9">>

\* The decimal digits of n >= 0 as characters, most significant first.
RECURSIVE DigitsOf(_)
DigitsOf(n) ==
  IF n < 10 THEN <<DigitChar[n + 1]>>
  ELSE Append(DigitsOf(n \div 10), DigitChar[(n % 10) + 1])

\* f"{part_num:03d}": the digits, zero-padded on the left to a width of at least 3.
Fmt03d(n) ==
  LET d == DigitsOf(n)
  IN  IF Len(d) >= 3 THEN d ELSE [i \in 1..(3 - Len(d)) |-> "0"] \o d

\* output_dir of split_file: work_dir / "<stem>_split" unless one is given.
SplitOutputDir(fp, od) ==
  IF od = None THEN work_dir \o <<<<fp.stem, "_split">>>> ELSE od

\* output_dir / f"{filepath.name}.{part_num:03d}"
ChunkPath(fp, od, n) ==
  [dir |-> SplitOutputDir(fp, od), name |-> NameOf(fp) \o <<".">> \o Fmt03d(n)]

\* A mutant of the conversion: decimal megabytes.
chunk_size_decimal == chunk_size_mb * 1000 * 1000

\* Line 286: chunk_size = chunk_size_mb * 1024 * 1024
chunk_size == chunk_size_mb * MiB

file_size == filepath.size

\* out.write(chunk) to a new or existing file.
WriteFile(d, path, data) ==
  [p \in (DOMAIN d) \cup {path} |-> IF p = path THEN data ELSE d[p]]

\* A mutant of the loop's exit test: the loop also ends on a short read.
NotChunkOrShort(len) == len < chunk_size

\* "if not chunk: break"
NotChunk(len) == len = 0

\* "if file_size <= chunk_size: return [filepath]"
NoSplitNeeded(fsize, csize) == fsize <= csize

SplitInit ==
  /\ filepath \in SourceFiles
  /\ chunk_size_mb \in 1..MaxChunkMB
  /\ output_dir \in {None, <<"out">>}
  /\ split_pc = "call"
  /\ f_pos = 0
  /\ part_num = 1
  /\ chunks = <<>>
  /\ split_ret = <<>>
  /\ disk = <<>>

\* Lines 278-296: the early return, or the start of the loop.
SplitCall ==
  /\ split_pc = "call"
  /\ IF NoSplitNeeded(file_size, chunk_size)
       THEN /\ split_pc' = "returned"
            /\ split_ret' = <<SourcePath(filepath)>>
       ELSE /\ split_pc' = "loop"
            /\ UNCHANGED split_ret
  /\ UNCHANGED <<filepath, chunk_size_mb, output_dir, f_pos, part_num, chunks, disk>>

\* Lines 300-317: one iteration of the loop; lines 319-322 when the read is empty.
SplitStep ==
  /\ split_pc = "loop"
  /\ LET len == ReadLen(file_size, f_pos, chunk_size)
         output_file == ChunkPath(filepath, output_dir, part_num)
     IN  IF NotChunk(len)
           THEN /\ split_pc' = "returned"
                /\ split_ret' = chunks
                /\ UNCHANGED <<f_pos, part_num, chunks, disk>>
           ELSE /\ disk' = WriteFile(disk, output_file,
                                 [src |-> SourcePath(filepath),
                                  off |-> f_pos, len |-> len])
                /\ chunks' = Append(chunks, output_file)
                /\ f_pos' = f_pos + len
                /\ part_num' = part_num + 1
                /\ UNCHANGED <<split_pc, split_ret>>
  /\ UNCHANGED <<filepath, chunk_size_mb, output_dir>>

\* Lines 324-325: an I/O error in the loop aborts the split; the chunk files
\* written so far stay.
SplitRaise ==
  /\ split_pc = "loop"
  /\ split_pc' = "raised"
  /\ UNCHANGED <<filepath, chunk_size_mb, output_dir, f_pos, part_num, chunks,
                 split_ret, disk>>

\* No split_file call in progress.
SplitIdle ==
  /\ filepath = [dir |-> <<"dirA">>, stem |-> "movie", suffix |-> ".mkv", size |-> 0]
  /\ chunk_size_mb = 1
  /\ output_dir = None
  /\ split_pc = "idle"
  /\ f_pos = 0
  /\ part_num = 1
  /\ chunks = <<>>
  /\ split_ret = <<>>
  /\ disk = <<>>

----------------------------------------------------------------------------
(* Tool lookup: find_7z_executable, find_par2_executable *)

\* What is at a path on disk: nothing, a tool that runs, or a file that exists
\* but cannot be invoked (stale, partial, not an executable).
FileStates == {"absent", "good", "broken"}

\* What invoking a bare command name through PATH does: FileNotFoundError, the
\* tool runs, subprocess.TimeoutExpired after 2 s, or another OSError
\* (PermissionError, exec format error).
PathStates == {"absent", "good", "timeout", "broken"}

\* The results of a lookup: a path (where it was found, and what is there), None,
\* or an exception that leaves the function.
Found(where, tool) == [kind |-> "found", where |-> where, tool |-> tool]
NotFound == [kind |-> "none", where |-> "-", tool |-> "-"]
LookupRaised == [kind |-> "raised", where |-> "-", tool |-> "-"]

\* "for path in common_paths: if os.path.exists(path): return path" on win32.
RECURSIVE FirstExisting(_, _)
FirstExisting(common, i) ==
  IF i > Len(common) THEN NotFound
  ELSE IF common[i] # "absent" THEN Found("common", common[i])
  ELSE FirstExisting(common, i + 1)

CommonLookup(common) ==
  IF platform = "win32" THEN FirstExisting(common, 1) ELSE NotFound

\* "for cmd in [...]: try: subprocess.run([cmd, flag], timeout=2); return cmd
\*  except (FileNotFoundError, subprocess.TimeoutExpired): continue"
RECURSIVE PathLookup(_, _)
PathLookup(path, i) ==
  IF i > Len(path) THEN NotFound
  ELSE IF path[i] = "good" THEN Found("PATH", "good")
  ELSE IF path[i] = "broken" THEN LookupRaised
  ELSE PathLookup(path, i + 1)

\* The child processes the PATH loop spawns: subprocess.run starts the command
\* unless the name is not found (FileNotFoundError) or cannot be executed; a
\* command that hangs is started and killed after the 2 s timeout.
RECURSIVE PathProbes(_, _)
PathProbes(path, i) ==
  IF i > Len(path) THEN 0
  ELSE IF path[i] = "good" THEN 1
  ELSE IF path[i] = "broken" THEN 0
  ELSE (IF path[i] = "timeout" THEN 1 ELSE 0) + PathProbes(path, i + 1)

\* find_7z_executable and find_par2_executable: the local copy if it exists, then
\* the bare names through PATH, then the well-known installation paths.
Lookup(local, path, common) ==
  LET p == PathLookup(path, 1)
  IN  IF local # "absent" THEN Found("local", local)
      ELSE IF p.kind # "none" THEN p
      ELSE CommonLookup(common)

find_7z_executable(local, path, common) == Lookup(local, <<path>>, common)

find_par2_executable(local, path, common) == Lookup(local, path, common)

----------------------------------------------------------------------------
(* Provisioning: download_7zip_standalone, download_par2_standalone *)

\* How a download ends: "ok"; "unusable" (the transfer ends without an error but
\* what was written is not a usable tool: an error page, a truncated body);
\* "fail_connect" (requests.get or raise_for_status raises, nothing written yet);
\* "fail_stream" (an error while streaming to disk).  For the PAR2 archive also
\* "fail_extract" (zipfile raises) and "fail_move" (shutil.move raises).
Dl7zOutcomes == {"ok", "unusable", "fail_connect", "fail_stream"}
DlPar2Outcomes == Dl7zOutcomes \cup {"fail_extract", "fail_move"}

\* Where par2.exe lies in the downloaded archive.
Layouts == {"root", "subdir", "no_exe"}

\* A mutant of the cleanup: the partial download is left in place.
Unlink7zNever(local) == local

\* "if self.local_7z_path.exists(): self.local_7z_path.unlink()"
Unlink7z(local) == "absent"

\* download_7zip_standalone: the file at local_7z_path afterwards, and whether
\* the call returned or raised.
download_7zip_standalone(local, dl) ==
  CASE dl \in {"ok", "-"} -> [result |-> "ok", local |-> "good"]
    [] dl = "unusable" -> [result |-> "ok", local |-> "broken"]
    [] dl = "fail_connect" -> [result |-> "raised", local |-> Unlink7z(local)]
    [] dl = "fail_stream" -> [result |-> "raised", local |-> Unlink7z("broken")]

\* "if zip_path.exists(): zip_path.unlink()
\*  if self.local_par2_dir.exists(): shutil.rmtree(self.local_par2_dir)"
CleanupPar2(zip, dir, exe) == [zip |-> "absent", dir |-> "absent", exe |-> "absent"]

\* download_par2_standalone from the disk state (zip, dir, exe): the disk
\* afterwards, whether the call returned or raised, and the error raised.
download_par2_standalone(zip, dir, exe, dl, layout) ==
  LET placed == IF layout = "no_exe" THEN exe
                ELSE IF dl = "ok" THEN "good" ELSE "broken"
      after(c, res, err) ==
        [result |-> res, err |-> err, zip |-> c.zip, dir |-> c.dir, exe |-> c.exe]
  IN  CASE dl \in {"ok", "unusable", "-"} ->
             after([zip |-> "absent", dir |-> "extracted", exe |-> placed], "ok", "-")
        \* zip_path is assigned after requests.get: the handler's zip_path.exists()
        \* raises UnboundLocalError before anything is removed.
        [] dl = "fail_connect" ->
             after([zip |-> zip, dir |-> dir, exe |-> exe], "raised", "UnboundLocalError")
        [] dl = "fail_stream" ->
             after(CleanupPar2("partial", dir, exe), "raised", "download")
        [] dl = "fail_extract" ->
             after(CleanupPar2("full", "partial", exe), "raised", "download")
        [] dl = "fail_move" ->
             after(CleanupPar2("absent", "extracted", exe), "raised", "download")

----------------------------------------------------------------------------
(* NyuuDownloader.extract_archive *)

ArchiveKinds == {"tar_xz", "7z", "other"}

Ev(step, result) == [step |-> step, result |-> result]

NoErr == [exc |-> "-", carries |-> {}]

\* The outcome of an extract_archive call: the steps taken, in order, "returned"
\* or "raised", the exception (its type and the steps whose error text it
\* carries), the path the lookup returned last, and local_7z_path afterwards.
Outcome(log, result, err, located, local) ==
  [log |-> log, result |-> result, err |-> err, located |-> located, local |-> local]

\* Lines 187-210: run the located 7z, or report that none was found.
Run7z(log, loc, local, can) ==
  IF loc.kind = "found"
    THEN IF loc.tool = "good"
           THEN IF can
                  THEN Outcome(Append(log, Ev("system_tool", "ok")), "returned",
                               NoErr, loc, local)
                  \* subprocess.CalledProcessError: wrapped with the py7zr error
                  ELSE Outcome(Append(log, Ev("system_tool", "failed")), "raised",
                               [exc |-> "Exception",
                                carries |-> {"native_library", "system_tool"}],
                               loc, local)
           \* the file cannot be executed: subprocess.run raises OSError, which
           \* "except subprocess.CalledProcessError" does not catch
           ELSE Outcome(Append(log, Ev("system_tool", "failed")), "raised",
                        [exc |-> "OSError", carries |-> {"system_tool"}], loc, local)
    ELSE Outcome(log, "raised",
                 [exc |-> "Exception", carries |-> {"native_library"}], loc, local)

\* A mutant of the provisioning test: the platform is not looked at.
ShouldProvisionAnywhere(loc) == loc.kind = "none"

\* "if not seven_zip_path and sys.platform == 'win32'" (and the same test on
\* par2_cmd in create_par2).
ShouldProvision(loc) == loc.kind = "none" /\ platform = "win32"

\* Lines 152-210: the .7z branch.
Extract7z(native_ok, local, path, common, dl, can) ==
  LET log1 == <<Ev("native_library", IF native_ok THEN "ok" ELSE "failed")>>
      loc1 == find_7z_executable(local, path, common)
      log2 == Append(log1, Ev("locate", loc1.kind))
      d    == download_7zip_standalone(local, dl)
      log3 == Append(log2, Ev("provision", d.result))
      loc2 == find_7z_executable(d.local, path, common)
      log4 == Append(log3, Ev("locate", loc2.kind))
  IN  IF native_ok THEN Outcome(log1, "returned", NoErr, NotFound, local)
      ELSE IF loc1.kind = "raised"
        THEN Outcome(log2, "raised", [exc |-> "OSError", carries |-> {"locate"}],
                     loc1, local)
      ELSE IF ShouldProvision(loc1)
        THEN IF d.result = "raised"
               THEN Outcome(log3, "raised",
                            [exc |-> "Exception",
                             carries |-> {"provision", "native_library"}],
                            loc1, d.local)
               ELSE Run7z(log4, loc2, d.local, can)
      ELSE Run7z(log2, loc1, local, can)

\* Lines 144-212.
extract_archive(kind, native_ok, local, path, common, dl, can) ==
  CASE kind = "tar_xz" ->
         IF native_ok
           THEN Outcome(<<Ev("native_library", "ok")>>, "returned", NoErr, NotFound, local)
           ELSE Outcome(<<Ev("native_library", "failed")>>, "raised",
                        [exc |-> "TarError", carries |-> {"native_library"}],
                        NotFound, local)
    [] kind = "7z" -> Extract7z(native_ok, local, path, common, dl, can)
    [] kind = "other" -> Outcome(<<>>, "returned", NoErr, NotFound, local)

\* What the caller of extract_archive gets from a call that returns: extract_dir
\* (line 212) and the messages given to progress_callback (lines 172 and 178,
\* around the provisioning).
ExtractionOutcome(log) ==
  [extract_dir |-> <<"download_dir", "stem">>,
   messages |->
     IF \E i \in 1..Len(log) : log[i] = Ev("provision", "ok")
       THEN <<"7-Zip not found. Downloading standalone version...",
              "7-Zip downloaded. Extracting archive...">>
     ELSE IF \E i \in 1..Len(log) : log[i].step = "provision"
       THEN <<"7-Zip not found. Downloading standalone version...">>
     ELSE <<>>]

HasStep(log, step) == \E i \in 1..Len(log) : log[i].step = step

ExIdle ==
  [op |-> "none", kind |-> "-", path |-> "-", common |-> <<>>, dl |-> "-",
   can |-> FALSE, log |-> <<>>, result |-> "-", err |-> NoErr, located |-> NotFound]

ParIdle ==
  [op |-> "none", nfiles |-> 0, path |-> <<>>, common |-> <<>>, dl |-> "-",
   layout |-> "-", code |-> 0, made |-> 0, log |-> <<>>, result |-> "-",
   err |-> NoErr, errcode |-> 0, located |-> NotFound, ret |-> 0]

\* Whether a step of the log ran a located tool that can be invoked.
RanGoodTool(o, step) ==
  \E i \in 1..Len(o.log) : o.log[i].step = step /\ o.located.tool = "good"

\* No tool operation is in progress and the last one has been reported.
ToolsQuiet == ex.op = "none" /\ par.op = "none"

\* One call of extract_archive.  The installation (PATH, the well-known paths),
\* the archive and what the network does are the call's inputs: native_ok says
\* whether the in-process library can decode the archive, can whether a working
\* 7z command can (FALSE where py7zr is not in doubt).  dl is "-" when the call
\* downloads nothing.
ExtractArchive ==
  /\ ToolsQuiet
  /\ \E kind \in ArchiveKinds, path \in PathStates, common \in [1..2 -> FileStates] :
     \E native_ok \in IF kind = "other" THEN {TRUE} ELSE BOOLEAN :
     \E dl \in IF HasStep(extract_archive(kind, native_ok, local_7z, path, common,
                                          "ok", FALSE).log, "provision")
                 THEN Dl7zOutcomes ELSE {"-"} :
     \E can \in IF kind = "7z" /\ ~native_ok THEN BOOLEAN ELSE {FALSE} :
       LET o == extract_archive(kind, native_ok, local_7z, path, common, dl, can)
       IN  /\ local_7z' = o.local
           /\ ex' = [op |-> "extract_archive", kind |-> kind, path |-> path,
                     common |-> common, dl |-> dl, can |-> can, log |-> o.log,
                     result |-> o.result, err |-> o.err, located |-> o.located]
           /\ UNCHANGED <<platform, par2_zip, par2_dir, local_par2, par>>

----------------------------------------------------------------------------
(* FileProcessor.create_par2 and NyuuGUI.check_par2 *)

MaxMade == 2
MaxFiles == 1

ExitCodes == {0, 1, 2}

ParOutcome(log, result, err, errcode, located, ret, d) ==
  [log |-> log, result |-> result, err |-> err, errcode |-> errcode,
   located |-> located, ret |-> ret, zip |-> d.zip, dir |-> d.dir, exe |-> d.exe]

\* The tool is started whatever the lookup returned.
RunPar2Unchecked(log, loc, d, code, made) ==
  ParOutcome(Append(log, Ev("run", "failed")), "raised",
             [exc |-> "Exception", carries |-> {"run"}], 0, loc, 0, d)

\* The failure message says "exit code 1" whatever the tool returned.
RunPar2ExitOne(log, loc, d, code, made) ==
  IF loc.kind = "none"
    THEN ParOutcome(log, "raised",
                    [exc |-> "Exception", carries |-> {"tool_unavailable"}], 0,
                    loc, 0, d)
  ELSE IF loc.tool # "good"
    THEN ParOutcome(Append(log, Ev("run", "failed")), "raised",
                    [exc |-> "Exception", carries |-> {"run"}], 0, loc, 0, d)
  ELSE IF code = 0
    THEN ParOutcome(Append(log, Ev("run", "ok")), "returned", NoErr, 0, loc, made, d)
    ELSE ParOutcome(Append(log, Ev("run", "failed")), "raised",
                    [exc |-> "Exception", carries |-> {"exit_code"}], 1, loc, 0, d)

\* Lines 461-519: run the located par2 and collect the recovery files.
RunPar2(log, loc, d, code, made) ==
  IF loc.kind = "none"
    \* lines 452-459: the install instructions
    THEN ParOutcome(log, "raised",
                    [exc |-> "Exception", carries |-> {"tool_unavailable"}], 0,
                    loc, 0, d)
  ELSE IF loc.tool # "good"
    \* Popen raises OSError: wrapped by the handler of lines 518-519
    THEN ParOutcome(Append(log, Ev("run", "failed")), "raised",
                    [exc |-> "Exception", carries |-> {"run"}], 0, loc, 0, d)
  ELSE IF code = 0
    THEN ParOutcome(Append(log, Ev("run", "ok")), "returned", NoErr, 0, loc, made, d)
    ELSE ParOutcome(Append(log, Ev("run", "failed")), "raised",
                    [exc |-> "Exception", carries |-> {"exit_code"}], code, loc, 0, d)

\* Lines 414-519.
create_par2(nfiles, zip, dir, exe, path, common, dl, layout, code, made) ==
  LET d0   == [zip |-> zip, dir |-> dir, exe |-> exe]
      loc1 == find_par2_executable(exe, path, common)
      log1 == <<Ev("locate", loc1.kind)>>
      d    == download_par2_standalone(zip, dir, exe, dl, layout)
      log2 == Append(log1, Ev("provision", d.result))
      loc2 == find_par2_executable(d.exe, path, common)
      log3 == Append(log2, Ev("locate", loc2.kind))
  IN  IF nfiles = 0
        THEN ParOutcome(<<>>, "raised", [exc |-> "ValueError", carries |-> {}], 0,
                        NotFound, 0, d0)
      ELSE IF loc1.kind = "raised"
        THEN ParOutcome(log1, "raised", [exc |-> "OSError", carries |-> {"locate"}],
                        0, loc1, 0, d0)
      ELSE IF ShouldProvision(loc1)
        THEN IF d.result = "raised"
               THEN ParOutcome(log2, "raised",
                               [exc |-> "Exception",
                                carries |-> {"provision", d.err}], 0, loc1, 0, d)
               ELSE RunPar2(log3, loc2, d, code, made)
      ELSE RunPar2(log1, loc1, d0, code, made)

\* One call of create_par2 (from process_files_before_upload).  An input the
\* call never consults is "-" (dl, layout) or 0 (code, made).
CreatePar2 ==
  /\ ToolsQuiet
  /\ \E nfiles \in 0..MaxFiles, path \in [1..3 -> PathStates],
        common \in [1..2 -> FileStates] :
     \E dl \in IF HasStep(create_par2(nfiles, par2_zip, par2_dir, local_par2, path,
                                      common, "ok", "root", 0, 0).log, "provision")
                 THEN DlPar2Outcomes ELSE {"-"} :
     \E layout \in IF dl \in {"ok", "unusable"} THEN Layouts ELSE {"-"} :
     \E code \in IF RanGoodTool(create_par2(nfiles, par2_zip, par2_dir, local_par2,
                                            path, common, dl, layout, 0, 0), "run")
                   THEN ExitCodes ELSE {0} :
     \E made \in IF code = 0 /\ RanGoodTool(create_par2(nfiles, par2_zip, par2_dir,
                                              local_par2, path, common, dl, layout,
                                              0, 0), "run")
                   THEN 0..MaxMade ELSE {0} :
       LET o == create_par2(nfiles, par2_zip, par2_dir, local_par2, path, common,
                            dl, layout, code, made)
       IN  /\ par2_zip' = o.zip
           /\ par2_dir' = o.dir
           /\ local_par2' = o.exe
           /\ par' = [op |-> "create_par2", nfiles |-> nfiles, path |-> path,
                      common |-> common, dl |-> dl, layout |-> layout, code |-> code,
                      made |-> made, log |-> o.log, result |-> o.result,
                      err |-> o.err, errcode |-> o.errcode, located |-> o.located,
                      ret |-> o.ret]
           /\ UNCHANGED <<platform, local_7z, ex>>

\* NyuuGUI.check_par2: the lookup alone, from the "Check PAR2" button.
CheckPar2 ==
  /\ ToolsQuiet
  /\ \E path \in [1..3 -> PathStates], common \in [1..2 -> FileStates] :
       LET loc == find_par2_executable(local_par2, path, common)
       IN  /\ par' = [ParIdle EXCEPT !.op = "check_par2", !.path = path,
                                     !.common = common,
                                     !.log = <<Ev("locate", loc.kind)>>,
                                     !.result = IF loc.kind = "raised" THEN "raised"
                                                ELSE "returned",
                                     !.err = IF loc.kind = "raised"
                                               THEN [exc |-> "OSError",
                                                     carries |-> {"locate"}]
                                               ELSE NoErr,
                                     !.located = loc]
           /\ UNCHANGED <<platform, local_7z, par2_zip, par2_dir, local_par2, ex>>

\* The operation's result has been reported (the status line, a message box, the
\* console): the application is idle again, on the disk the operation left.
ToolsReported ==
  /\ ~ToolsQuiet
  /\ ex' = ExIdle
  /\ par' = ParIdle
  /\ UNCHANGED <<platform, local_7z, par2_zip, par2_dir, local_par2>>

\* The disk and the platform the application starts on: a local copy of either
\* tool may be there from an earlier run, usable or not.
ToolsInit ==
  /\ platform \in {"win32", "linux"}
  /\ local_7z \in FileStates
  /\ par2_zip = "absent"
  /\ local_par2 \in FileStates
  /\ par2_dir \in IF local_par2 = "absent" THEN {"absent", "extracted"}
                  ELSE {"extracted"}
  /\ ex = ExIdle
  /\ par = ParIdle

\* The tool state of a run in which no tool operation happens.
ToolsIdle ==
  /\ platform = "linux"
  /\ local_7z = "absent"
  /\ par2_zip = "absent"
  /\ par2_dir = "absent"
  /\ local_par2 = "absent"
  /\ ex = ExIdle
  /\ par = ParIdle


----------------------------------------------------------------------------
(* NyuuGUI: start_upload, run_process, the Tk callback queue, stop_upload *)

MaxJobs == 2
MaxLines == 1

\* self.nyuu_process = None
NoProc == 0

\* The exit codes of the poster when it ends by itself, and when it is ended by
\* terminate() (SIGTERM on POSIX, TerminateProcess on Windows).
NyuuExitCodes == {0, 1}
TermExitCodes == {-15, 1}

\* returncode: <<>> is None (the process has not exited), <<c>> the exit code c.
ReturnCode(p) == IF proc[p].state = "exited" THEN <<proc[p].code>> ELSE <<>>

Callback(kind, arg) == [kind |-> kind, arg |-> arg]

Message(kind, code) == [kind |-> kind, code |-> code]

UploadInit ==
  /\ status_label = "Ready"
  /\ start_btn = "normal"
  /\ stop_btn = "disabled"
  /\ nyuu_process = NoProc
  /\ proc = [p \in 1..MaxJobs |->
               [state |-> "none", code |-> 0, emitted |-> 0, nread |-> 0,
                term |-> FALSE]]
  /\ worker = [j \in 1..MaxJobs |-> [pc |-> "none", on |-> NoProc, branch |-> "-"]]
  /\ after_queue = <<>>
  /\ console = <<>>
  /\ main_pc = "idle"
  /\ jobs = 0

\* What process_files_before_upload does when split or PAR2 is enabled ("off"
\* when neither is), and whether build_command raises ValueError.
PrepOutcomes == {"off", "ok", "failed"}
CommandOutcomes == {"built", "ValueError"}

\* start_upload, lines 1254-1336, on the main thread.
StartUpload ==
  /\ main_pc = "idle"
  /\ start_btn = "normal"
  /\ jobs < MaxJobs
  /\ \E prep \in PrepOutcomes, cmd \in CommandOutcomes :
       IF prep = "failed"
         \* lines 1262-1269: the error is shown in a message box
         THEN /\ status_label' = "Processing files..."
              /\ UNCHANGED <<start_btn, stop_btn, worker, jobs>>
       ELSE IF cmd = "ValueError"
         \* lines 1272, 1335-1336: the error is shown in a message box
         THEN /\ status_label' = IF prep = "ok" THEN "Processing files..."
                                 ELSE status_label
              /\ UNCHANGED <<start_btn, stop_btn, worker, jobs>>
         \* lines 1286-1333
         ELSE /\ status_label' = "Uploading..."
              /\ start_btn' = "disabled"
              /\ stop_btn' = "normal"
              /\ jobs' = jobs + 1
              /\ worker' = [worker EXCEPT ![jobs + 1].pc = "popen"]
  /\ UNCHANGED <<nyuu_process, proc, after_queue, console, main_pc>>

\* stop_upload, line 1340: "if self.nyuu_process:".
StopUpload ==
  /\ main_pc = "idle"
  /\ stop_btn = "normal"
  /\ main_pc' = IF nyuu_process # NoProc THEN "stop_terminate" ELSE "idle"
  /\ UNCHANGED <<status_label, start_btn, stop_btn, nyuu_process, proc, worker,
                 after_queue, console, jobs>>

\* stop_upload, lines 1341-1345: self.nyuu_process is read again; when a worker
\* has cleared it in between, terminate() raises AttributeError and the handler
\* ends there.
StopTerminate ==
  /\ main_pc = "stop_terminate"
  /\ main_pc' = "idle"
  /\ IF nyuu_process = NoProc
       THEN UNCHANGED <<status_label, start_btn, stop_btn, proc, console>>
       ELSE /\ proc' = [proc EXCEPT ![nyuu_process].term =
                                       (proc[nyuu_process].state = "running")]
            /\ console' = Append(console, Message("stopped", <<>>))
            /\ status_label' = "Stopped"
            /\ start_btn' = "normal"
            /\ stop_btn' = "disabled"
  /\ UNCHANGED <<nyuu_process, worker, after_queue, jobs>>

\* Line 1314-1315, the lambda: self.nyuu_process.returncode is read when the
\* callback runs.  When self.nyuu_process is None by then the lambda raises
\* AttributeError and nothing is written.
FailureReport ==
  IF nyuu_process = NoProc THEN <<>>
  ELSE <<Message("failed", ReturnCode(nyuu_process))>>

\* Line 1319, the lambda: str(e) is read when the callback runs.  e is unbound as
\* soon as the worker has left its except block; the lambda then raises NameError
\* and nothing is written.
ErrorReport(j) ==
  IF worker[j].pc = "report2" THEN <<Message("error", <<>>)>> ELSE <<>>

\* The Tk main loop runs the oldest callback.
RunCallback ==
  /\ main_pc = "idle"
  /\ after_queue # <<>>
  /\ LET cb == Head(after_queue)
     IN  /\ after_queue' = Tail(after_queue)
         /\ console' =
              CASE cb.kind = "line" -> Append(console, Message("line", cb.arg))
                [] cb.kind = "log_ok" -> Append(console, Message("completed", <<>>))
                [] cb.kind = "log_error" -> console \o ErrorReport(cb.arg)
                [] cb.kind = "log_fail" -> console \o FailureReport
                [] OTHER -> console
         /\ status_label' = IF cb.kind = "status" THEN cb.arg ELSE status_label
         /\ start_btn' = IF cb.kind = "start_btn" THEN cb.arg ELSE start_btn
         /\ stop_btn' = IF cb.kind = "stop_btn" THEN cb.arg ELSE stop_btn
  /\ UNCHANGED <<nyuu_process, proc, worker, main_pc, jobs>>

After(cb) == after_queue' = Append(after_queue, cb)

Goto(j, pc) == worker' = [worker EXCEPT ![j].pc = pc]

\* Line 1294: subprocess.Popen, which may raise, and the assignment of the handle.
WorkerPopen(j) ==
  /\ worker[j].pc = "popen"
  /\ \/ /\ proc' = [proc EXCEPT ![j].state = "running"]
        /\ nyuu_process' = j
        /\ Goto(j, "iter")
     \/ /\ worker' = [worker EXCEPT ![j].pc = "report", ![j].branch = "error"]
        /\ UNCHANGED <<proc, nyuu_process>>
  /\ UNCHANGED <<status_label, start_btn, stop_btn, after_queue, console, main_pc,
                 jobs>>

\* Line 1303: "for line in self.nyuu_process.stdout": the handle is read once.
WorkerIter(j) ==
  /\ worker[j].pc = "iter"
  /\ worker' = IF nyuu_process = NoProc
                 THEN [worker EXCEPT ![j].pc = "report", ![j].branch = "error"]
                 ELSE [worker EXCEPT ![j].pc = "read", ![j].on = nyuu_process]
  /\ UNCHANGED <<status_label, start_btn, stop_btn, nyuu_process, proc, after_queue,
                 console, main_pc, jobs>>

\* Lines 1303-1304: the next line of the pipe is handed to the main loop; the
\* loop ends when the process has exited and the pipe is drained.
WorkerRead(j) ==
  /\ worker[j].pc = "read"
  /\ LET p == worker[j].on
     IN  IF proc[p].nread < proc[p].emitted
           THEN /\ proc' = [proc EXCEPT ![p].nread = @ + 1]
                /\ After(Callback("line", <<p, proc[p].nread + 1>>))
                /\ UNCHANGED worker
           ELSE /\ proc[p].state = "exited"
                /\ Goto(j, "wait")
                /\ UNCHANGED <<proc, after_queue>>
  /\ UNCHANGED <<status_label, start_btn, stop_btn, nyuu_process, console, main_pc,
                 jobs>>

\* Line 1307: self.nyuu_process.wait(): the handle is read again.
WorkerWait(j) ==
  /\ worker[j].pc = "wait"
  /\ worker' = IF nyuu_process = NoProc
                 THEN [worker EXCEPT ![j].pc = "report", ![j].branch = "error"]
                 ELSE [worker EXCEPT ![j].pc = "waiting", ![j].on = nyuu_process]
  /\ UNCHANGED <<status_label, start_btn, stop_btn, nyuu_process, proc, after_queue,
                 console, main_pc, jobs>>

\* wait() returns when the process it was called on has exited.
WorkerWaiting(j) ==
  /\ worker[j].pc = "waiting"
  /\ proc[worker[j].on].state = "exited"
  /\ Goto(j, "check")
  /\ UNCHANGED <<status_label, start_btn, stop_btn, nyuu_process, proc, after_queue,
                 console, main_pc, jobs>>

\* Line 1309: "if self.nyuu_process.returncode == 0": the handle is read again.
WorkerCheck(j) ==
  /\ worker[j].pc = "check"
  /\ worker' = [worker EXCEPT
                  ![j].pc = "report",
                  ![j].on = nyuu_process,
                  ![j].branch = IF nyuu_process = NoProc THEN "error"
                                ELSE IF ReturnCode(nyuu_process) = <<0>> THEN "ok"
                                ELSE "fail"]
  /\ UNCHANGED <<status_label, start_btn, stop_btn, nyuu_process, proc, after_queue,
                 console, main_pc, jobs>>

\* Lines 1310, 1314, 1319: the first callback of the branch taken.
WorkerReport(j) ==
  /\ worker[j].pc = "report"
  /\ After(CASE worker[j].branch = "ok" -> Callback("log_ok", <<>>)
             [] worker[j].branch = "fail" -> Callback("log_fail", <<>>)
             [] worker[j].branch = "error" -> Callback("log_error", j))
  /\ Goto(j, "report2")
  /\ UNCHANGED <<status_label, start_btn, stop_btn, nyuu_process, proc, console,
                 main_pc, jobs>>

\* Lines 1311, 1316, 1320: the second callback of the branch taken.
WorkerReportStatus(j) ==
  /\ worker[j].pc = "report2"
  /\ After(Callback("status",
                    CASE worker[j].branch = "ok" -> "Upload Complete"
                      [] worker[j].branch = "fail" -> "Upload Failed"
                      [] worker[j].branch = "error" -> "Error"))
  /\ Goto(j, "finally")
  /\ UNCHANGED <<status_label, start_btn, stop_btn, nyuu_process, proc, console,
                 main_pc, jobs>>

\* Lines 1323-1326: the buttons are reset through the main loop and the handle is
\* cleared, whichever process it holds.
WorkerFinally(j) ==
  /\ worker[j].pc = "finally"
  /\ after_queue' = after_queue \o
       <<Callback("start_btn", "normal"), Callback("stop_btn", "disabled")>>
  /\ nyuu_process' = NoProc
  /\ Goto(j, "done")
  /\ UNCHANGED <<status_label, start_btn, stop_btn, proc, console, main_pc, jobs>>

\* The poster writes a line of output.
ProcEmit(p) ==
  /\ proc[p].state = "running"
  /\ proc[p].emitted < MaxLines
  /\ proc' = [proc EXCEPT ![p].emitted = @ + 1]
  /\ UNCHANGED <<status_label, start_btn, stop_btn, nyuu_process, worker,
                 after_queue, console, main_pc, jobs>>

\* The poster exits: by itself, or because terminate() was called on it.
ProcExit(p) ==
  /\ proc[p].state = "running"
  /\ \E c \in IF proc[p].term THEN TermExitCodes ELSE NyuuExitCodes :
       proc' = [proc EXCEPT ![p].state = "exited", ![p].code = c]
  /\ UNCHANGED <<status_label, start_btn, stop_btn, nyuu_process, worker,
                 after_queue, console, main_pc, jobs>>

----------------------------------------------------------------------------
(* NyuuDownloader.get_asset_for_os *)

MaxAssets == 3

\* Lines 108-113.  A name is a sequence of pieces of text; a search term is one.
asset_map ==
  [os \in {"Linux x64", "Linux ARM64", "macOS x64", "Windows 32-bit"} |->
     CASE os = "Linux x64" -> <<"linux-amd64">>
       [] os = "Linux ARM64" -> <<"linux-aarch64">>
       [] os = "macOS x64" -> <<"macos-x64">>
       [] os = "Windows 32-bit" -> <<"win32">>]

\* The selectors a caller may pass: the registered ones and two that are not.
Selectors == DOMAIN asset_map \cup {"Windows 64-bit", ""}

\* The asset names of a release: the archive names, a name that holds two
\* tokens, and one that holds none.
AssetNames ==
  {<<"nyuu-", "linux-amd64", ".tar.xz">>,
   <<"nyuu-", "win32", ".7z">>,
   <<"nyuu-", "win32", "-", "linux-amd64", ".zip">>,
   <<"nyuu-", "source", ".zip">>}

Asset(name, id) == [name |-> name, browser_download_url |-> <<"url", id>>]

NoAsset == [name |-> <<>>, browser_download_url |-> <<>>]

\* A mutant of the loop's test: the last piece of the name alone is compared.
ContainsAsSuffix(name, term) ==
  Len(name) >= 1 /\ <<name[Len(name)]>> = term

\* "search_term in asset['name']": the term occurs in the name.
Contains(name, term) ==
  \E i \in 1..(Len(name) - Len(term) + 1) : SubSeq(name, i, i + Len(term) - 1) = term

\* Lines 119-121: the first asset, in order, whose name contains the term.
RECURSIVE FirstAsset(_, _, _)
FirstAsset(assets, term, i) ==
  IF i > Len(assets) THEN NoAsset
  ELSE IF Contains(assets[i].name, term) THEN assets[i]
  ELSE FirstAsset(assets, term, i + 1)

\* get_asset_for_os: (url, name), or the exception raised.
get_asset_for_os(assets, os_type) ==
  IF os_type \notin DOMAIN asset_map
    THEN [kind |-> "raised", error |-> "Unknown OS type", found |-> NoAsset]
  ELSE IF FirstAsset(assets, asset_map[os_type], 1) = NoAsset
    THEN [kind |-> "raised", error |-> "No asset found", found |-> NoAsset]
  ELSE [kind |-> "returned", error |-> "-",
        found |-> FirstAsset(assets, asset_map[os_type], 1)]

\* The releases: up to MaxAssets assets, each with its own URL.
Releases ==
  UNION {[1..n -> AssetNames] : n \in 0..MaxAssets}

AssetsOf(names) == [i \in 1..Len(names) |-> Asset(names[i], i)]

NoResult == [kind |-> "-", error |-> "-", found |-> NoAsset]

AssetInit ==
  /\ asset \in [assets : {AssetsOf(r) : r \in Releases}, os_type : Selectors,
                out : {NoResult}, again : {NoResult}, calls : {0}]

AssetIdle ==
  asset = [assets |-> <<>>, os_type |-> "", out |-> NoResult, again |-> NoResult,
           calls |-> 0]

\* A call of get_asset_for_os; the second call, on the same arguments, is kept
\* beside the first.
GetAsset ==
  /\ asset.calls < 2
  /\ asset' = [asset EXCEPT
                 !.calls = @ + 1,
                 !.out = IF asset.calls = 0
                           THEN get_asset_for_os(asset.assets, asset.os_type) ELSE @,
                 !.again = IF asset.calls = 1
                             THEN get_asset_for_os(asset.assets, asset.os_type) ELSE @]

----------------------------------------------------------------------------
(* NyuuGUI.download_nyuu, NyuuDownloader.download_and_setup, download_file *)

MaxDownloads == 2
MaxBlocks == 2

\* The releases the API answers with while the application runs.
LiveReleases ==
  {AssetsOf(<<>>),
   AssetsOf(<<<<"nyuu-", "linux-amd64", ".tar.xz">>, <<"nyuu-", "win32", ".7z">>>>)}

\* The selectors of the combo box, line 569.
os_options == {"Linux x64", "Linux ARM64", "macOS x64", "Windows 32-bit"}

NoFile == [state |-> "absent", writers |-> {}, mixed |-> FALSE]

\* A thread of download_nyuu.  In download_file, left is the number of blocks
\* the response still holds, total the Content-Length in blocks (0 when the
\* response has no such header), written the blocks written to disk and calls
\* the running counts the progress callback was called with.
NoThread ==
  [pc |-> "none", os_type |-> "", file |-> <<>>, left |-> 0, error |-> "-",
   total |-> 0, written |-> 0, calls |-> <<>>]

DownloadInit ==
  /\ download_btn = "normal"
  /\ dthread = [t \in 1..MaxDownloads |-> NoThread]
  /\ staged = [n \in AssetNames |-> NoFile]
  /\ dl_after = 0

Started == {t \in 1..MaxDownloads : dthread[t].pc # "none"}

\* download_nyuu, lines 974-1002: the handler reads the selector and starts a
\* thread; the button is left as it is.
DownloadNyuu ==
  /\ download_btn = "normal"
  /\ Cardinality(Started) < MaxDownloads
  /\ \E os \in os_options :
       dthread' = [dthread EXCEPT ![Cardinality(Started) + 1] =
                     [NoThread EXCEPT !.pc = "disable", !.os_type = os]]
  /\ UNCHANGED <<download_btn, staged, dl_after>>

\* Line 980, in the thread.
ThreadDisable(t) ==
  /\ dthread[t].pc = "disable"
  /\ download_btn' = "disabled"
  /\ dthread' = [dthread EXCEPT ![t].pc = "resolve"]
  /\ UNCHANGED <<staged, dl_after>>

\* Lines 231-235: get_latest_release_info, which may raise, and get_asset_for_os.
ThreadResolve(t) ==
  /\ dthread[t].pc = "resolve"
  /\ \/ dthread' = [dthread EXCEPT ![t].pc = "finally", ![t].error = "release info"]
     \/ \E rel \in LiveReleases :
          LET r == get_asset_for_os(rel, dthread[t].os_type)
          IN  dthread' = IF r.kind = "raised"
                           THEN [dthread EXCEPT ![t].pc = "finally",
                                                ![t].error = r.error]
                           ELSE [dthread EXCEPT ![t].pc = "connect",
                                                ![t].file = r.found.name]
  /\ UNCHANGED <<download_btn, staged, dl_after>>

\* download_file, lines 127-131: requests.get and raise_for_status, before the
\* destination is opened, and the Content-Length header, 0 when it is missing.
ThreadConnect(t) ==
  /\ dthread[t].pc = "connect"
  /\ \/ dthread' = [dthread EXCEPT ![t].pc = "finally", ![t].error = "connect"]
     \/ \E n \in 1..MaxBlocks, known \in BOOLEAN :
          dthread' = [dthread EXCEPT ![t].pc = "open", ![t].left = n,
                                     ![t].total = IF known THEN n ELSE 0]
  /\ UNCHANGED <<download_btn, staged, dl_after>>

\* Lines 133-134: open(filepath, 'wb') creates or truncates the destination.
ThreadOpen(t) ==
  /\ dthread[t].pc = "open"
  /\ staged' = [staged EXCEPT ![dthread[t].file] =
                  [state |-> "partial", writers |-> @.writers \cup {t},
                   mixed |-> @.writers # {}]]
  /\ dthread' = [dthread EXCEPT ![t].pc = "write"]
  /\ UNCHANGED <<download_btn, dl_after>>

\* What is at the destination when a writer closes it.
Closed(f, t) ==
  [state |-> IF f.writers = {t}
               THEN (IF f.mixed THEN "corrupt" ELSE "full")
               ELSE "partial",
   writers |-> f.writers \ {t}, mixed |-> f.mixed]

\* Lines 134-140 when iter_content raises: the with block closes the file, which
\* stays as far as it was written, and the exception leaves download_file.
ClosedOnError(f, t) ==
  [state |-> IF f.writers = {t} /\ f.mixed THEN "corrupt" ELSE "partial",
   writers |-> f.writers \ {t}, mixed |-> f.mixed]

\* Lines 139-140: "if progress_callback and total_size:
\*                    progress_callback(downloaded, total_size)"
Progress(th) ==
  IF th.total # 0 THEN Append(th.calls, th.written + 1) ELSE th.calls

\* Lines 135-142: one block is written and reported, or the stream fails; after
\* the last block the file is closed.
ThreadWrite(t) ==
  /\ dthread[t].pc = "write"
  /\ LET f == dthread[t].file
     IN  \/ /\ dthread[t].left > 1
            /\ dthread' = [dthread EXCEPT ![t].left = @ - 1,
                                          ![t].written = @ + 1,
                                          ![t].calls = Progress(dthread[t])]
            /\ UNCHANGED staged
         \/ /\ dthread[t].left = 1
            /\ dthread' = [dthread EXCEPT ![t].left = 0, ![t].pc = "extract",
                                          ![t].written = @ + 1,
                                          ![t].calls = Progress(dthread[t])]
            /\ staged' = [staged EXCEPT ![f] = Closed(@, t)]
         \/ /\ dthread' = [dthread EXCEPT ![t].pc = "finally", ![t].error = "stream"]
            /\ staged' = [staged EXCEPT ![f] = ClosedOnError(@, t)]
  /\ UNCHANGED <<download_btn, dl_after>>

\* Lines 252-258: extract_archive and find_nyuu_executable, which return or raise.
ThreadExtract(t) ==
  /\ dthread[t].pc = "extract"
  /\ \/ dthread' = [dthread EXCEPT ![t].pc = "finally"]
     \/ dthread' = [dthread EXCEPT ![t].pc = "finally", ![t].error = "extract"]
  /\ UNCHANGED <<download_btn, staged, dl_after>>

\* Lines 998-999.
ThreadFinally(t) ==
  /\ dthread[t].pc = "finally"
  /\ dl_after' = dl_after + 1
  /\ dthread' = [dthread EXCEPT ![t].pc = "done"]
  /\ UNCHANGED <<download_btn, staged>>

\* The main loop runs a callback of line 999.
EnableDownload ==
  /\ dl_after > 0
  /\ dl_after' = dl_after - 1
  /\ download_btn' = "normal"
  /\ UNCHANGED <<dthread, staged>>

----------------------------------------------------------------------------
(* NyuuGUI.build_command, process_files_before_upload and start_upload *)

MaxSelected == 2
MaxRecovery == 2

\* The values of the fields.  An option value may be the text of an option flag
\* or of a selected path.
Hosts == {"", "news.example.org", "-p"}
Users == {"", "-p"}
Passwords == {"", "pw1", "pw2"}
Comments == {"", "f1"}
Newsgroups == {"", "alt.binaries.test"}
FileNames == {"f1", "f2"}

\* The selections of the files list box, duplicates included.
Selections == UNION {[1..n -> FileNames] : n \in 0..MaxSelected}

SettingsSet ==
  [nyuu_path_ok : BOOLEAN, host : Hosts, user : Users, password : Passwords,
   comment : Comments, groups : Newsgroups, files : Selections,
   enable_split : BOOLEAN, enable_par2 : BOOLEAN]

\* "if self.x_var.get(): cmd.extend([flag, self.x_var.get()])"
Opt(flag, value) == IF value = "" THEN <<>> ELSE <<flag, value>>

\* build_command without its files: lines 1092-1172, for the fields modelled.
OptionPart(s) ==
  <<"nyuu">> \o <<"-h", s.host>> \o Opt("-u", s.user) \o Opt("-p", s.password)
    \o Opt("-t", s.comment) \o <<"-g", s.groups>>

ValueError(msg) == [kind |-> "ValueError", msg |-> msg, cmd |-> <<>>]

\* build_command, lines 1086-1181: the checks in the order of the code.
build_command(s) ==
  IF ~s.nyuu_path_ok THEN ValueError("Nyuu executable not found")
  ELSE IF s.host = "" THEN ValueError("Server host is required")
  ELSE IF s.groups = "" THEN ValueError("At least one newsgroup is required")
  ELSE IF s.files = <<>> THEN ValueError("No files selected for upload")
  ELSE [kind |-> "built", msg |-> "-", cmd |-> OptionPart(s) \o s.files]

\* What preparation meets: the files larger than the chunk size, whether
\* split_file raises, and what create_par2 does: no tool is found, the tool
\* exits with a nonzero code, or it exits with 0 having made n recovery files.
Par2Does ==
  {[kind |-> "no_tool", n |-> 0], [kind |-> "failed", n |-> 0]}
    \cup {[kind |-> "made", n |-> n] : n \in 0..MaxRecovery}

PrepEnvs == [big : SUBSET FileNames, split_raises : BOOLEAN, par2 : Par2Does]

\* An event of a start_upload call: the operation and the thread that ran it.
Event(op, arg, thread) == [op |-> op, arg |-> arg, thread |-> thread]

\* split_file's result for one file: the file itself, or its chunks in work_dir.
ChunksOf(f, env) ==
  IF f \in env.big
    THEN <<"processed_files/" \o f \o ".001", "processed_files/" \o f \o ".002">>
    ELSE <<f>>

\* Lines 1214-1224: the files are split one after the other.
RECURSIVE SplitAll(_, _, _)
SplitAll(files, env, i) ==
  IF i > Len(files) THEN <<>>
  ELSE ChunksOf(files[i], env) \o SplitAll(files, env, i + 1)

SplitEvents(files, thread) ==
  [i \in 1..Len(files) |-> Event("split_file", files[i], thread)]

RecoveryFiles(n) == [i \in 1..n |-> IF i = 1 THEN "rec.par2" ELSE "rec.vol.par2"]

Prepared(kind, files, events) == [kind |-> kind, files |-> files, events |-> events]

\* process_files_before_upload, lines 1198-1252, run by the thread given.
process_files_before_upload(s, env, thread) ==
  LET split  == IF s.enable_split THEN SplitAll(s.files, env, 1) ELSE s.files
      ev1    == IF s.enable_split THEN SplitEvents(s.files, thread) ELSE <<>>
      ev2    == Append(ev1, Event("create_par2", "-", thread))
      ev3    == Append(ev2, Event("spawn", "par2", thread))
  IN  IF s.files = <<>> THEN Prepared("returned", <<>>, <<>>)
      ELSE IF s.enable_split /\ env.split_raises
        THEN Prepared("raised", <<>>, <<Event("split_file", s.files[1], thread)>>)
      ELSE IF ~s.enable_par2 THEN Prepared("returned", split, ev1)
      ELSE IF env.par2.kind = "no_tool" THEN Prepared("raised", <<>>, ev2)
      ELSE IF env.par2.kind = "failed" THEN Prepared("raised", <<>>, ev3)
      ELSE Prepared("returned", split \o RecoveryFiles(env.par2.n), ev3)

\* "idx = cmd.index(x); cmd.pop(idx)": the first occurrence is removed.
RECURSIVE RemoveFirst(_, _)
RemoveFirst(cmd, x) ==
  IF cmd = <<>> THEN <<>>
  ELSE IF Head(cmd) = x THEN Tail(cmd)
  ELSE <<Head(cmd)>> \o RemoveFirst(Tail(cmd), x)

\* Lines 1277-1281.
RECURSIVE RemoveOriginals(_, _, _)
RemoveOriginals(cmd, originals, i) ==
  IF i > Len(originals) THEN cmd
  ELSE RemoveOriginals(RemoveFirst(cmd, originals[i]), originals, i + 1)

\* Lines 1275-1284.
ReplaceFiles(cmd, originals, processed) ==
  IF processed = <<>> THEN cmd
  ELSE RemoveOriginals(cmd, originals, 1) \o processed

NotStarted ==
  [called |-> FALSE, status |-> "Ready", dialog |-> "-", events |-> <<>>,
   prepared |-> <<>>, ran_prep |-> FALSE, thread_started |-> FALSE, cmd |-> <<>>]

\* The thread is started whatever preparation did.
start_upload_unguarded(s, env) ==
  LET needed == s.enable_split \/ s.enable_par2
      prep   == IF needed THEN process_files_before_upload(s, env, "main")
                ELSE Prepared("returned", <<>>, <<>>)
      built  == build_command(s)
      st     == IF needed THEN "Processing files..." ELSE "Ready"
  IN  IF built.kind = "ValueError"
        THEN [called |-> TRUE, status |-> st, dialog |-> built.msg,
              events |-> prep.events, prepared |-> prep.files, ran_prep |-> needed,
              thread_started |-> FALSE, cmd |-> <<>>]
      ELSE [called |-> TRUE, status |-> "Uploading...", dialog |-> "-",
            events |-> prep.events, prepared |-> prep.files, ran_prep |-> needed,
            thread_started |-> TRUE,
            cmd |-> ReplaceFiles(built.cmd, s.files, prep.files)]

\* start_upload, lines 1254-1336: what the call leaves, and the command the
\* thread it starts is given.  The handler is a button command: it runs on the
\* thread of the main loop.
start_upload(s, env) ==
  LET needed == s.enable_split \/ s.enable_par2
      prep   == IF needed THEN process_files_before_upload(s, env, "main")
                ELSE Prepared("returned", <<>>, <<>>)
      built  == build_command(s)
      st     == IF needed THEN "Processing files..." ELSE "Ready"
  IN  IF prep.kind = "raised"
        THEN [called |-> TRUE, status |-> st, dialog |-> "Processing Error",
              events |-> prep.events, prepared |-> <<>>, ran_prep |-> needed,
              thread_started |-> FALSE, cmd |-> <<>>]
      ELSE IF built.kind = "ValueError"
        THEN [called |-> TRUE, status |-> st, dialog |-> built.msg,
              events |-> prep.events, prepared |-> prep.files, ran_prep |-> needed,
              thread_started |-> FALSE, cmd |-> <<>>]
      ELSE [called |-> TRUE, status |-> "Uploading...", dialog |-> "-",
            events |-> prep.events, prepared |-> prep.files, ran_prep |-> needed,
            thread_started |-> TRUE,
            cmd |-> ReplaceFiles(built.cmd, s.files, prep.files)]

\* "display_cmd.index(x)": the position of the first occurrence, 0 when there is
\* none.
RECURSIVE IndexFrom(_, _, _)
IndexFrom(cmd, x, i) ==
  IF i > Len(cmd) THEN 0
  ELSE IF cmd[i] = x THEN i
  ELSE IndexFrom(cmd, x, i + 1)

\* Lines 1188-1191: the argument after the first "-p" is replaced.
MaskPassword(cmd) ==
  LET i == IndexFrom(cmd, "-p", 1)
  IN  IF i = 0 THEN cmd
      ELSE [k \in 1..Len(cmd) |-> IF k = i + 1 THEN "****" ELSE cmd[k]]

\* Line 1193: " ".join(...); no value of the fields modelled holds a space, so
\* no argument is quoted.
RECURSIVE JoinArgs(_)
JoinArgs(cmd) ==
  IF cmd = <<>> THEN ""
  ELSE IF Len(cmd) = 1 THEN cmd[1]
  ELSE cmd[1] \o " " \o JoinArgs(Tail(cmd))

NotShown == [kind |-> "-", text |-> ""]

\* view_command, lines 1183-1196: the message box it opens.
view_command(s) ==
  LET built == build_command(s)
  IN  IF built.kind = "ValueError" THEN [kind |-> "error", text |-> built.msg]
      ELSE [kind |-> "info", text |-> JoinArgs(MaskPassword(built.cmd))]

StartInit ==
  /\ settings \in SettingsSet
  /\ prep_env \in PrepEnvs
  /\ started = NotStarted
  /\ shown = NotShown

StartIdle ==
  /\ settings = [nyuu_path_ok |-> FALSE, host |-> "", user |-> "", password |-> "",
                 comment |-> "", groups |-> "", files |-> <<>>,
                 enable_split |-> FALSE, enable_par2 |-> FALSE]
  /\ prep_env = [big |-> {}, split_raises |-> FALSE,
                 par2 |-> [kind |-> "no_tool", n |-> 0]]
  /\ started = NotStarted
  /\ shown = NotShown

\* One click on "Start Upload".
StartUploadCall ==
  /\ ~started.called
  /\ started' = start_upload(settings, prep_env)
  /\ UNCHANGED <<settings, prep_env, shown>>

\* One click on "View Command".
ViewCommand ==
  /\ shown = NotShown
  /\ shown' = view_command(settings)
  /\ UNCHANGED <<settings, prep_env, started>>

----------------------------------------------------------------------------
(* NyuuGUI.toggle_ssl: the port field and the SSL check box *)

MaxFormEvents == 4

\* Texts of the port field: empty, the two defaults, another port.
Ports == {"", "119", "563", "443"}

\* toggle_ssl, lines 965-972: the port after the handler ran, the check box
\* being in the state ssl.
toggle_ssl(ssl, port) ==
  IF ssl THEN (IF port = "119" THEN "563" ELSE port)
  ELSE (IF port = "563" THEN "119" ELSE port)

FormEvent(op, before, after) == [op |-> op, before |-> before, after |-> after]

\* Lines 622-623: the form as it is constructed.
FormInit ==
  /\ port_var = "119"
  /\ ssl_var = FALSE
  /\ form_log = <<>>

FormIdle == FormInit

\* Line 638: a click on the check box flips its variable and runs toggle_ssl.
ClickSsl ==
  /\ Len(form_log) < MaxFormEvents
  /\ ssl_var' = ~ssl_var
  /\ port_var' = toggle_ssl(ssl_var', port_var)
  /\ form_log' = Append(form_log, FormEvent("toggle", port_var, port_var'))

\* Line 635: the user types another port in the entry.
EditPort ==
  /\ Len(form_log) < MaxFormEvents
  /\ \E p \in Ports \ {port_var} :
       /\ port_var' = p
       /\ form_log' = Append(form_log, FormEvent("edit", port_var, p))
  /\ UNCHANGED ssl_var

----------------------------------------------------------------------------
(* process_files_before_upload: the split loop over the selected files *)

\* The files a selection is made of: the same name in two directories, another
\* name, one size that needs no split with a chunk size of 1 MB and one that does.
PrepSources ==
  {[dir |-> <<d>>, stem |-> n, suffix |-> ".mkv", size |-> z] :
      d \in {"dirA", "dirB"}, n \in {"movie", "clip"}, z \in {MiB, 2 * MiB + 1}}

\* The list box holds two different files.
PrepSelections ==
  {sel \in [1..2 -> PrepSources] : SourcePath(sel[1]) # SourcePath(sel[2])}

PrepPosition(pc, i, pos, part) ==
  [pc |-> pc, i |-> i, f_pos |-> pos, part_num |-> part]

\* An entry of processed_files: the path, and the data that was written there
\* for it (for a file passed through, the file's own data).
Processed(path, data) == [path |-> path, data |-> data]

PrepInit ==
  /\ files_listbox \in PrepSelections
  /\ split_size_var = 1
  /\ split_output_var \in {None, <<"out">>}
  /\ prep_run = PrepPosition("call", 1, 0, 1)
  /\ prep_disk = <<>>
  /\ processed_files = <<>>

\* No preparation in progress.
PrepIdle ==
  /\ files_listbox = <<>>
  /\ split_size_var = 1
  /\ split_output_var = None
  /\ prep_run = PrepPosition("idle", 1, 0, 1)
  /\ prep_disk = <<>>
  /\ processed_files = <<>>

\* Lines 1214-1222 and 278-296: split_file is called on the next selected file;
\* a file not larger than the chunk size is returned as it is.
PrepSplitCall ==
  /\ prep_run.pc = "call"
  /\ prep_run.i <= Len(files_listbox)
  /\ LET fp == files_listbox[prep_run.i]
     IN  IF NoSplitNeeded(fp.size, split_size_var * MiB)
           THEN /\ processed_files' = Append(processed_files,
                                             Processed(SourcePath(fp), DataOf(fp)))
                /\ prep_run' = PrepPosition("call", prep_run.i + 1, 0, 1)
           ELSE /\ prep_run' = [prep_run EXCEPT !.pc = "loop"]
                /\ UNCHANGED processed_files
  /\ UNCHANGED <<files_listbox, split_size_var, split_output_var, prep_disk>>

\* Lines 300-322 and 1223: one chunk is written, or the read is empty and the
\* chunks join processed_files (they are appended here as they are written).
PrepSplitStep ==
  /\ prep_run.pc = "loop"
  /\ LET fp   == files_listbox[prep_run.i]
         len  == ReadLen(fp.size, prep_run.f_pos, split_size_var * MiB)
         out  == ChunkPath(fp, split_output_var, prep_run.part_num)
         data == [src |-> SourcePath(fp), off |-> prep_run.f_pos, len |-> len]
     IN  IF NotChunk(len)
           THEN /\ prep_run' = PrepPosition("call", prep_run.i + 1, 0, 1)
                /\ UNCHANGED <<prep_disk, processed_files>>
           ELSE /\ prep_disk' = WriteFile(prep_disk, out, data)
                /\ processed_files' = Append(processed_files, Processed(out, data))
                /\ prep_run' = [prep_run EXCEPT !.f_pos = @ + len,
                                                !.part_num = @ + 1]
  /\ UNCHANGED <<files_listbox, split_size_var, split_output_var>>

\* Line 1247: the loop is over, processed_files is returned.
PrepReturn ==
  /\ prep_run.pc = "call"
  /\ prep_run.i > Len(files_listbox)
  /\ prep_run' = [prep_run EXCEPT !.pc = "returned"]
  /\ UNCHANGED <<files_listbox, split_size_var, split_output_var, prep_disk,
                 processed_files>>

----------------------------------------------------------------------------
(* The specifications *)

SplitNext ==
  \/ SplitCall /\ UNCHANGED <<tool_vars, upload_vars, download_vars, asset_vars, start_vars, form_vars, prep_vars>>
  \/ SplitStep /\ UNCHANGED <<tool_vars, upload_vars, download_vars, asset_vars, start_vars, form_vars, prep_vars>>
  \/ SplitRaise /\ UNCHANGED <<tool_vars, upload_vars, download_vars, asset_vars, start_vars, form_vars, prep_vars>>

InitSplit == SplitInit /\ ToolsIdle /\ UploadInit /\ DownloadInit /\ AssetIdle /\ StartIdle
    /\ FormIdle /\ PrepIdle

SpecSplit == InitSplit /\ [][SplitNext]_vars

ToolsNext ==
  \/ ExtractArchive /\ UNCHANGED <<split_vars, upload_vars, download_vars, asset_vars, start_vars, form_vars, prep_vars>>
  \/ CheckPar2 /\ UNCHANGED <<split_vars, upload_vars, download_vars, asset_vars, start_vars, form_vars, prep_vars>>
  \/ CreatePar2 /\ UNCHANGED <<split_vars, upload_vars, download_vars, asset_vars, start_vars, form_vars, prep_vars>>
  \/ ToolsReported /\ UNCHANGED <<split_vars, upload_vars, download_vars, asset_vars, start_vars, form_vars, prep_vars>>

InitTools == ToolsInit /\ SplitIdle /\ UploadInit /\ DownloadInit /\ AssetIdle /\ StartIdle
    /\ FormIdle /\ PrepIdle

SpecTools == InitTools /\ [][ToolsNext]_vars

UploadNext ==
  \/ StartUpload /\ UNCHANGED <<split_vars, tool_vars, download_vars, asset_vars, start_vars, form_vars, prep_vars>>
  \/ StopUpload /\ UNCHANGED <<split_vars, tool_vars, download_vars, asset_vars, start_vars, form_vars, prep_vars>>
  \/ StopTerminate /\ UNCHANGED <<split_vars, tool_vars, download_vars, asset_vars, start_vars, form_vars, prep_vars>>
  \/ RunCallback /\ UNCHANGED <<split_vars, tool_vars, download_vars, asset_vars, start_vars, form_vars, prep_vars>>
  \/ (\E j \in 1..MaxJobs : WorkerPopen(j)) /\ UNCHANGED <<split_vars, tool_vars, download_vars, asset_vars, start_vars, form_vars, prep_vars>>
  \/ (\E j \in 1..MaxJobs : WorkerIter(j)) /\ UNCHANGED <<split_vars, tool_vars, download_vars, asset_vars, start_vars, form_vars, prep_vars>>
  \/ (\E j \in 1..MaxJobs : WorkerRead(j)) /\ UNCHANGED <<split_vars, tool_vars, download_vars, asset_vars, start_vars, form_vars, prep_vars>>
  \/ (\E j \in 1..MaxJobs : WorkerWait(j)) /\ UNCHANGED <<split_vars, tool_vars, download_vars, asset_vars, start_vars, form_vars, prep_vars>>
  \/ (\E j \in 1..MaxJobs : WorkerWaiting(j)) /\ UNCHANGED <<split_vars, tool_vars, download_vars, asset_vars, start_vars, form_vars, prep_vars>>
  \/ (\E j \in 1..MaxJobs : WorkerCheck(j)) /\ UNCHANGED <<split_vars, tool_vars, download_vars, asset_vars, start_vars, form_vars, prep_vars>>
  \/ (\E j \in 1..MaxJobs : WorkerReport(j)) /\ UNCHANGED <<split_vars, tool_vars, download_vars, asset_vars, start_vars, form_vars, prep_vars>>
  \/ (\E j \in 1..MaxJobs : WorkerReportStatus(j)) /\ UNCHANGED <<split_vars, tool_vars, download_vars, asset_vars, start_vars, form_vars, prep_vars>>
  \/ (\E j \in 1..MaxJobs : WorkerFinally(j)) /\ UNCHANGED <<split_vars, tool_vars, download_vars, asset_vars, start_vars, form_vars, prep_vars>>
  \/ (\E j \in 1..MaxJobs : ProcEmit(j)) /\ UNCHANGED <<split_vars, tool_vars, download_vars, asset_vars, start_vars, form_vars, prep_vars>>
  \/ (\E j \in 1..MaxJobs : ProcExit(j)) /\ UNCHANGED <<split_vars, tool_vars, download_vars, asset_vars, start_vars, form_vars, prep_vars>>

InitUpload == UploadInit /\ SplitIdle /\ ToolsIdle /\ DownloadInit /\ AssetIdle /\ StartIdle
    /\ FormIdle /\ PrepIdle

SpecUpload == InitUpload /\ [][UploadNext]_vars

AssetNext ==
  GetAsset /\ UNCHANGED <<split_vars, tool_vars, upload_vars, download_vars, start_vars, form_vars, prep_vars>>

InitAsset == AssetInit /\ SplitIdle /\ ToolsIdle /\ UploadInit /\ DownloadInit /\ StartIdle
    /\ FormIdle /\ PrepIdle

SpecAsset == InitAsset /\ [][AssetNext]_vars

DownloadNext ==
  \/ DownloadNyuu /\ UNCHANGED <<split_vars, tool_vars, upload_vars, asset_vars, start_vars, form_vars, prep_vars>>
  \/ EnableDownload /\ UNCHANGED <<split_vars, tool_vars, upload_vars, asset_vars, start_vars, form_vars, prep_vars>>
  \/ (\E t \in 1..MaxDownloads : ThreadDisable(t))
       /\ UNCHANGED <<split_vars, tool_vars, upload_vars, asset_vars, start_vars, form_vars, prep_vars>>
  \/ (\E t \in 1..MaxDownloads : ThreadResolve(t))
       /\ UNCHANGED <<split_vars, tool_vars, upload_vars, asset_vars, start_vars, form_vars, prep_vars>>
  \/ (\E t \in 1..MaxDownloads : ThreadConnect(t))
       /\ UNCHANGED <<split_vars, tool_vars, upload_vars, asset_vars, start_vars, form_vars, prep_vars>>
  \/ (\E t \in 1..MaxDownloads : ThreadOpen(t))
       /\ UNCHANGED <<split_vars, tool_vars, upload_vars, asset_vars, start_vars, form_vars, prep_vars>>
  \/ (\E t \in 1..MaxDownloads : ThreadWrite(t))
       /\ UNCHANGED <<split_vars, tool_vars, upload_vars, asset_vars, start_vars, form_vars, prep_vars>>
  \/ (\E t \in 1..MaxDownloads : ThreadExtract(t))
       /\ UNCHANGED <<split_vars, tool_vars, upload_vars, asset_vars, start_vars, form_vars, prep_vars>>
  \/ (\E t \in 1..MaxDownloads : ThreadFinally(t))
       /\ UNCHANGED <<split_vars, tool_vars, upload_vars, asset_vars, start_vars, form_vars, prep_vars>>

InitDownload == DownloadInit /\ SplitIdle /\ ToolsIdle /\ UploadInit /\ AssetIdle /\ StartIdle
    /\ FormIdle /\ PrepIdle

SpecDownload == InitDownload /\ [][DownloadNext]_vars

StartNext ==
  \/ StartUploadCall
       /\ UNCHANGED <<split_vars, tool_vars, upload_vars, download_vars, asset_vars, form_vars, prep_vars>>
  \/ ViewCommand
       /\ UNCHANGED <<split_vars, tool_vars, upload_vars, download_vars, asset_vars, form_vars, prep_vars>>

InitStart ==
  StartInit /\ SplitIdle /\ ToolsIdle /\ UploadInit /\ DownloadInit /\ AssetIdle
    /\ FormIdle /\ PrepIdle

SpecStart == InitStart /\ [][StartNext]_vars

FormNext ==
  \/ ClickSsl /\ UNCHANGED <<split_vars, tool_vars, upload_vars, download_vars, asset_vars, start_vars, prep_vars>>
  \/ EditPort /\ UNCHANGED <<split_vars, tool_vars, upload_vars, download_vars, asset_vars, start_vars, prep_vars>>

InitForm ==
  FormInit /\ SplitIdle /\ ToolsIdle /\ UploadInit /\ DownloadInit /\ AssetIdle
    /\ StartIdle /\ PrepIdle

SpecForm == InitForm /\ [][FormNext]_vars

PrepNext ==
  \/ PrepSplitCall /\ UNCHANGED <<split_vars, tool_vars, upload_vars, download_vars, asset_vars, start_vars, form_vars>>
  \/ PrepSplitStep /\ UNCHANGED <<split_vars, tool_vars, upload_vars, download_vars, asset_vars, start_vars, form_vars>>
  \/ PrepReturn /\ UNCHANGED <<split_vars, tool_vars, upload_vars, download_vars, asset_vars, start_vars, form_vars>>

InitPrep ==
  PrepInit /\ SplitIdle /\ ToolsIdle /\ UploadInit /\ DownloadInit /\ AssetIdle
    /\ StartIdle /\ FormIdle

SpecPrep == InitPrep /\ [][PrepNext]_vars

Range(f) == {f[x] : x \in DOMAIN f}

----------------------------------------------------------------------------
(* Properties of split_file *)

\* The bytes at a returned path: the source itself, or a chunk file on disk.
ContentOf(path) ==
  IF path = SourcePath(filepath) THEN DataOf(filepath) ELSE Norm(disk[path])

Bad == [src |-> [dir |-> <<>>, name |-> <<"Bad">>], off |-> 0, len |-> 0]

\* a followed by b, when that is again a run of bytes of one source; Bad when
\* it is not.
Join(a, b) ==
  IF a = Bad \/ b = Bad THEN Bad
  ELSE IF a.len = 0 THEN b
  ELSE IF b.len = 0 THEN a
  ELSE IF a.src = b.src /\ a.off + a.len = b.off
         THEN [src |-> a.src, off |-> a.off, len |-> a.len + b.len]
         ELSE Bad

\* The concatenation of the contents of paths[lo..hi], in list order.
RECURSIVE ConcatRange(_, _, _)
ConcatRange(paths, lo, hi) ==
  IF lo > hi THEN EmptyData
  ELSE IF lo = hi THEN ContentOf(paths[lo])
  ELSE LET mid == (lo + hi) \div 2
       IN  Join(ConcatRange(paths, lo, mid), ConcatRange(paths, mid + 1, hi))

Concat(paths) == ConcatRange(paths, 1, Len(paths))

\* The number a sequence of digit characters reads as.
DigitValue(c) == (CHOOSE i \in 1..10 : DigitChar[i] = c) - 1

RECURSIVE ValueOf(_)
ValueOf(d) ==
  IF Len(d) = 0 THEN 0
  ELSE 10 * ValueOf(SubSeq(d, 1, Len(d) - 1)) + DigitValue(d[Len(d)])

CeilDiv(a, b) == (a + b - 1) \div b

\* C1: for every source file F and chunk size C > 0, the contents of the chunks
\* split_file returns, concatenated in list order, are F byte for byte; and when
\* size(F) <= C the result is the one-element list [F] and no chunk file is
\* written.
C1_SplitRoundTrip ==
  split_pc = "returned" =>
    /\ Concat(split_ret) = DataOf(filepath)
    /\ filepath.size <= chunk_size_mb * MiB =>
          /\ split_ret = <<SourcePath(filepath)>>
          /\ DOMAIN disk = {}

C1_Witness ==
  /\ split_pc = "returned"
  /\ Len(split_ret) >= 3
  /\ filepath.size % (chunk_size_mb * MiB) # 0
  /\ DOMAIN disk # {}

\* C2: when size(F) > C, split_file returns exactly ceil(size(F)/C) chunks, every
\* chunk but the last holds exactly C bytes, and the last holds
\* size(F) - (n-1)*C bytes, between 1 and C.
C2_ChunkSizes ==
  LET C == chunk_size_mb * MiB
      n == Len(split_ret)
  IN  (split_pc = "returned" /\ filepath.size > C) =>
        /\ n = CeilDiv(filepath.size, C)
        /\ \A k \in 1..(n - 1) : disk[split_ret[k]].len = C
        /\ disk[split_ret[n]].len = filepath.size - (n - 1) * C
        /\ disk[split_ret[n]].len \in 1..C

C2_Witness ==
  /\ split_pc = "returned"
  /\ filepath.size = 3 * MiB + 1
  /\ chunk_size_mb = 1
  /\ Len(split_ret) = 4
  /\ disk[split_ret[4]].len = 1

\* C3: the chunks split_file returns are named <source name>.<k>, k the chunk's
\* 1-based position in the list, and the suffix has one fixed width for every
\* chunk of the same split, whatever the number of chunks.
C3_FixedWidthSuffix ==
  LET base == NameOf(filepath) \o <<".">>
      suffix(k) == SubSeq(split_ret[k].name, Len(base) + 1, Len(split_ret[k].name))
  IN  (split_pc = "returned" /\ split_ret # <<SourcePath(filepath)>>) =>
        \A k \in 1..Len(split_ret) :
          /\ SubSeq(split_ret[k].name, 1, Len(base)) = base
          /\ ValueOf(suffix(k)) = k
          /\ Len(suffix(k)) = Len(suffix(1))

----------------------------------------------------------------------------
(* Properties of extract_archive, the lookups and the provisioning *)

StepsOf(log) == [i \in 1..Len(log) |-> log[i].step]

ProvisionsIn(log) == {i \in 1..Len(log) : log[i].step = "provision"}

NativeFailed(log) == Len(log) >= 1 /\ log[1] = Ev("native_library", "failed")

InstalledGood7z(path) == path = "good"

\* C5: if the native library fails on a (.7z) archive that the installed system 7z
\* can extract, extract_archive returns the extraction directory, the extraction
\* having been done by the system-tool strategy.
C5_FallbackSucceeds ==
  (/\ ex.op = "extract_archive"
   /\ ex.kind = "7z"
   /\ NativeFailed(ex.log)
   /\ InstalledGood7z(ex.path)
   /\ ex.can) =>
     /\ ex.result = "returned"
     /\ ex.log[Len(ex.log)] = Ev("system_tool", "ok")

\* C6: whenever an extraction ends in failure, the error raised carries the error
\* of every strategy that failed; the native-library error is never lost when a
\* later step also fails.
C6_ErrorsAggregated ==
  (ex.op = "extract_archive" /\ ex.result = "raised") =>
    \A i \in 1..Len(ex.log) :
      ex.log[i].result \in {"failed", "raised"} => ex.log[i].step \in ex.err.carries

\* C7: find_7z_executable and find_par2_executable never return a path that was
\* not verified to be invocable: what is at a returned path runs.
C7_LocatedToolVerified ==
  /\ ex.located.kind = "found" => ex.located.tool = "good"
  /\ par.located.kind = "found" => par.located.tool = "good"

\* C8: after a provisioning attempt that failed, no file is at the local tool
\* path, and no partial download or partially extracted directory remains; for
\* the 7-Zip download and for the par2cmdline download, at any failing step.
C8_ProvisioningAllOrNothing ==
  /\ (ex.op = "extract_archive" /\ Ev("provision", "raised") \in Range(ex.log)) =>
        local_7z = "absent"
  /\ (par.op = "create_par2" /\ Ev("provision", "raised") \in Range(par.log)) =>
        /\ local_par2 = "absent"
        /\ par2_zip = "absent"
        /\ par2_dir # "partial"

C8_Witness ==
  /\ par.op = "create_par2"
  /\ par.dl = "fail_extract"
  /\ Ev("provision", "raised") \in Range(par.log)
  /\ par2_dir = "absent"

----------------------------------------------------------------------------
(* Properties of the upload job *)

\* A job is over: its worker has finished and every callback has run.
Settled(j) ==
  /\ worker[j].pc = "done"
  /\ after_queue = <<>>
  /\ main_pc = "idle"

\* C9: whenever the poster process of an upload exits with a nonzero code c, the
\* console reports the upload as failed with exactly the code c, and whenever it
\* exits with 0 the console reports it as completed, however the worker thread
\* (which clears the process handle in its cleanup) and the main-loop callbacks
\* interleave.
C9_ExitCodeReported ==
  \A j \in 1..MaxJobs :
    (Settled(j) /\ proc[j].state = "exited") =>
      IF proc[j].code = 0
        THEN Message("completed", <<>>) \in Range(console)
        ELSE Message("failed", <<proc[j].code>>) \in Range(console)

\* C10: the terminal state of an upload job does not change afterwards: in
\* particular, when the latest job was stopped by the user (stop_upload has
\* terminated its process and the status shows "Stopped"), the status is not
\* later replaced by failed or completed.
C10_StoppedStaysCancelled ==
  [][(status_label = "Stopped" /\ jobs >= 1 /\ proc[jobs].term)
       => status_label' \notin {"Upload Failed", "Upload Complete"}]_vars

----------------------------------------------------------------------------
(* Properties of the download pipeline and of get_asset_for_os *)

\* C11: acquisition is single-flight: a second "Download Latest Release" that
\* arrives while a download is in flight is rejected or queued, so the downloaded
\* archive in the staging directory never has two concurrent writers.
C11_SingleFlight ==
  \A n \in AssetNames : Cardinality(staged[n].writers) <= 1

----------------------------------------------------------------------------
(* Properties of start_upload *)

Spawned(events) == {i \in 1..Len(events) : events[i].op = "spawn"}

ValidationMessages ==
  {"Server host is required", "At least one newsgroup is required"}

\* C12: with a poster executable in place, when the server host is empty or no
\* newsgroup is given, start_upload ends in a validation failure, and no process
\* (the poster or a helper tool such as par2) was spawned before it, whatever
\* preparation options are enabled; with an empty host and a newsgroup present
\* the failure cites the missing host.
C12_ValidationBeforeSpawn ==
  (/\ started.called
   /\ settings.nyuu_path_ok
   /\ settings.host = "" \/ settings.groups = "") =>
     /\ ~started.thread_started
     /\ started.dialog \in ValidationMessages
     /\ Spawned(started.events) = {}
     /\ (settings.host = "" /\ settings.groups # "") =>
          started.dialog = "Server host is required"

\* C13: when preparation ran, the argument vector given to the poster is the
\* option part built from the settings, unchanged, followed by exactly the
\* prepared file list in order, for every combination of option values and
\* file paths.
C13_PreparedFilesReplaceSelection ==
  (started.thread_started /\ started.ran_prep) =>
    started.cmd = OptionPart(settings) \o started.prepared

----------------------------------------------------------------------------
(* Properties of stop_upload and of the process handle *)

\* C14: once stop_upload has requested termination, the process is no longer
\* tracked: the handle self.nyuu_process is released by the request itself,
\* while the process may exit later.
C14_HandleReleasedOnStop ==
  [][(main_pc = "stop_terminate" /\ status_label' = "Stopped")
       => nyuu_process' = NoProc]_vars

----------------------------------------------------------------------------
(* Properties of the PAR2 step of the preparation *)

\* C15: when par2 exits with code 0 but no recovery file exists, create_par2 or
\* its caller process_files_before_upload surfaces an error: the empty recovery
\* set is not accepted and the upload, whose settings are valid, does not proceed.
C15_EmptyRecoverySetIsAnError ==
  (/\ started.called
   /\ settings.enable_par2
   /\ build_command(settings).kind = "built"
   /\ Event("spawn", "par2", "main") \in Range(started.events)
   /\ prep_env.par2 = [kind |-> "made", n |-> 0]) =>
     /\ ~started.thread_started
     /\ started.dialog = "Processing Error"

----------------------------------------------------------------------------
(* Properties of the provisioning and of the lookup order *)

\* C16: after a provisioning that returned successfully, the executable is at the
\* local tool path and the lookup that follows returns that local path, never
\* "not found"; for 7zr.exe and for par2.exe, whatever the layout of the
\* downloaded archive.
C16_ProvisionedToolIsLocated ==
  /\ (ex.op = "extract_archive" /\ Ev("provision", "ok") \in Range(ex.log)) =>
       /\ local_7z # "absent"
       /\ ex.located.kind = "found" /\ ex.located.where = "local"
  /\ (par.op = "create_par2" /\ Ev("provision", "ok") \in Range(par.log)) =>
       /\ local_par2 # "absent"
       /\ par.located.kind = "found" /\ par.located.where = "local"

----------------------------------------------------------------------------
(* Properties of download_file *)

\* C17: when the download of the poster archive fails part-way, while it is
\* streamed to disk, the partially written destination file is removed before
\* the failure leaves download_file (here for a download that runs alone).
C17_PartialFetchRemoved ==
  \A t \in 1..MaxDownloads :
    (/\ Started = {t}
     /\ dthread[t].error = "stream") =>
       staged[dthread[t].file].state = "absent"

----------------------------------------------------------------------------
(* Properties of the threads that run the preparation *)

\* C18: the preparation (split_file, create_par2 and the downloads they trigger)
\* runs on a worker apart from the control surface: the thread of the main loop
\* never executes split_file or create_par2.
C18_PreparationOffMainThread ==
  \A i \in 1..Len(started.events) :
    started.events[i].op \in {"split_file", "create_par2", "spawn"} =>
      started.events[i].thread # "main"

----------------------------------------------------------------------------
(* Properties of the lookup order *)

\* Where the first hit of a lookup lies: the local copy, a bare name that runs
\* through PATH, a well-known installation path (win32), or nowhere ("-").
FirstHit(local, path, common) ==
  IF local # "absent" THEN "local"
  ELSE IF \E i \in 1..Len(path) : path[i] = "good" THEN "PATH"
  ELSE IF platform = "win32" /\ \E i \in 1..Len(common) : common[i] # "absent"
    THEN "common"
  ELSE "-"

\* C19: the lookup searches (a) the local copy, (b) the bare names through PATH,
\* (c) the well-known installation paths, in this order, and returns the first
\* hit; when none matches it returns None as a value, never an error.  Stated
\* for find_par2_executable as check_par2 calls it.
C19_LookupOrder ==
  par.op = "check_par2" =>
    /\ par.located.kind # "raised"
    /\ par.located.where = FirstHit(local_par2, par.path, par.common)
    /\ par.located.kind = "none" <=> FirstHit(local_par2, par.path, par.common) = "-"

----------------------------------------------------------------------------
(* Properties of get_asset_for_os *)

\* The assets, by position, whose name holds the token of a registered selector.
Matching(assets, os_type) ==
  {i \in 1..Len(assets) :
     \E j \in 1..Len(assets[i].name) : <<assets[i].name[j]>> = asset_map[os_type]}

Least(S) == CHOOSE i \in S : \A j \in S : i <= j

\* C20: get_asset_for_os returns the first asset, in the order of the release,
\* whose name contains the token registered for the selector; it fails with
\* "Unknown OS type" when the selector is not registered, whatever the assets
\* are, and with "No asset found" when the selector is registered and no name
\* contains its token; a second call on the same arguments gives the same.
C20_FirstMatchingAsset ==
  /\ asset.calls >= 1 =>
       IF asset.os_type \notin DOMAIN asset_map
         THEN asset.out.kind = "raised" /\ asset.out.error = "Unknown OS type"
       ELSE IF Matching(asset.assets, asset.os_type) = {}
         THEN asset.out.kind = "raised" /\ asset.out.error = "No asset found"
       ELSE /\ asset.out.kind = "returned"
            /\ asset.out.found =
                 asset.assets[Least(Matching(asset.assets, asset.os_type))]
  /\ asset.calls = 2 => asset.again = asset.out

C20_Witness ==
  /\ asset.calls = 2
  /\ asset.out.kind = "returned"
  /\ Cardinality(Matching(asset.assets, asset.os_type)) >= 2
  /\ asset.out.found # asset.assets[1]

----------------------------------------------------------------------------
(* Properties of the poster's output and of the tracked handle *)

\* The lines of process p the console holds, in the order it holds them.
RECURSIVE LinesOf(_, _)
LinesOf(log, p) ==
  IF log = <<>> THEN <<>>
  ELSE IF Head(log).kind = "line" /\ Head(log).code[1] = p
    THEN <<Head(log).code[2]>> \o LinesOf(Tail(log), p)
  ELSE LinesOf(Tail(log), p)

\* Every thread started has finished and every callback has run.
AllSettled ==
  /\ \A j \in 1..MaxJobs : worker[j].pc \in {"none", "done"}
  /\ after_queue = <<>>
  /\ main_pc = "idle"

\* C21: the output lines of a poster process reach the console in the order the
\* process emitted them, none lost and none duplicated: once the process has
\* exited and every thread and callback has finished, the console holds exactly
\* the lines 1..emitted of the process, in this order.
C21_LinesDeliveredInOrder ==
  AllSettled =>
    \A p \in 1..MaxJobs :
      proc[p].state = "exited" =>
        LinesOf(console, p) = [i \in 1..proc[p].emitted |-> i]

----------------------------------------------------------------------------
(* Properties of create_par2's failures *)

\* A create_par2 call that looked the tool up, found none, on a platform the
\* application does not provision the tool on.
ToolUnavailableCall ==
  /\ par.op = "none"
  /\ par'.op = "create_par2"
  /\ platform # "win32"
  /\ HasStep(par'.log, "locate")
  /\ par'.located.kind = "none"

\* C22 as stated: when the parity tool cannot be located and the platform has no
\* auto-provisioning, create_par2 fails with the tool-unavailable error carrying
\* the install instructions, no child process at all has been spawned, and no
\* file has been created.
C22_NoChildProcessAtAll ==
  [][ToolUnavailableCall =>
       /\ par'.result = "raised"
       /\ par'.err.carries = {"tool_unavailable"}
       /\ ~HasStep(par'.log, "run")
       /\ PathProbes(par'.path, 1) = 0
       /\ UNCHANGED <<par2_zip, par2_dir, local_par2>>]_vars

\* C22 amended: when the parity tool cannot be located and the platform has no
\* auto-provisioning, create_par2 fails with the tool-unavailable error carrying
\* the install instructions, without running the parity tool on the files and
\* without creating any file (the lookup's probes through PATH may have started
\* a command that timed out).
C22_ToolUnavailable ==
  [][ToolUnavailableCall =>
       /\ par'.result = "raised"
       /\ par'.err.carries = {"tool_unavailable"}
       /\ ~HasStep(par'.log, "run")
       /\ UNCHANGED <<par2_zip, par2_dir, local_par2>>]_vars

\* Such a call has happened, with a probe that timed out.
C22_Witness ==
  /\ par.op = "create_par2"
  /\ platform # "win32"
  /\ HasStep(par.log, "locate")
  /\ par.located.kind = "none"
  /\ par.err.carries = {"tool_unavailable"}
  /\ \E i \in 1..Len(par.path) : par.path[i] = "timeout"

\* The parity tool was started by the last create_par2 call and exited.
Par2Exited ==
  /\ par.op = "create_par2"
  /\ HasStep(par.log, "run")
  /\ par.located.kind = "found"
  /\ par.located.tool = "good"

\* C24: when the parity tool exits with a nonzero code c, create_par2 fails with
\* an error that carries exactly c, and returns no recovery files.
C24_ExitCodeCarried ==
  (Par2Exited /\ par.code # 0) =>
    /\ par.result = "raised"
    /\ par.err.carries = {"exit_code"}
    /\ par.errcode = par.code
    /\ par.ret = 0

\* The tool has exited with code 2 and the error says so.
C24_Witness ==
  Par2Exited /\ par.code = 2 /\ par.result = "raised" /\ par.errcode = 2

----------------------------------------------------------------------------
(* Properties of start_upload and view_command *)

\* A preparation step of the click fails: split_file raises, or create_par2
\* finds no tool or the tool exits with a nonzero code.
SplitFails ==
  settings.enable_split /\ settings.files # <<>> /\ prep_env.split_raises
Par2Fails ==
  /\ settings.enable_par2 /\ settings.files # <<>> /\ ~SplitFails
  /\ prep_env.par2.kind \in {"no_tool", "failed"}
PrepFails == SplitFails \/ Par2Fails

\* C23: the poster is started only after the poster executable is there and file
\* preparation (the splits, then the recovery set) has completed successfully;
\* when a preparation step fails the thread that spawns the poster is never
\* started for that click.
C23_PosterAfterPreparation ==
  started.called =>
    /\ started.thread_started => (settings.nyuu_path_ok /\ ~PrepFails)
    /\ PrepFails => (~started.thread_started /\ started.cmd = <<>>)
    /\ \A i, j \in 1..Len(started.events) :
         (started.events[i].op = "split_file"
            /\ started.events[j].op = "create_par2") => i < j

\* A click on settings that pass validation, whose recovery-set generation
\* failed after its splits: no thread was started.
C23_Witness ==
  /\ started.called
  /\ build_command(settings).kind = "built"
  /\ Par2Fails
  /\ settings.enable_split
  /\ ~started.thread_started

----------------------------------------------------------------------------
(* Properties of download_file's progress reports *)

\* C25: download_file calls the progress callback after every block written to
\* disk, with the running count (1, 2, ... up to the blocks written), whether or
\* not the response announced its total size.
C25_ProgressAfterEveryBlock ==
  \A t \in 1..MaxDownloads :
    dthread[t].calls = [i \in 1..dthread[t].written |-> i]

----------------------------------------------------------------------------
(* Properties of the server form and of the split loop *)

\* C30: two clicks in a row on the SSL check box leave the port field as it was
\* before the first of them, whatever the port and the check box were.
C30_DoubleToggleRestoresPort ==
  \A i \in 1..(Len(form_log) - 1) :
    (form_log[i].op = "toggle" /\ form_log[i + 1].op = "toggle") =>
      form_log[i + 1].after = form_log[i].before

\* C29: within one preparation run, chunks of different source files have
\* different paths, and every chunk path of processed_files holds the data that
\* was written for it.
C29_ChunkPathsDistinct ==
  /\ \A i, j \in 1..Len(processed_files) :
       processed_files[i].data.src # processed_files[j].data.src =>
         processed_files[i].path # processed_files[j].path
  /\ \A i \in 1..Len(processed_files) :
       processed_files[i].path \in DOMAIN prep_disk =>
         prep_disk[processed_files[i].path] = processed_files[i].data

\* C28: the command view_command displays does not depend on the password: with
\* any other password set in the same form, the displayed text is the same.
C28_PasswordNeverShown ==
  (shown.kind = "info" /\ settings.password # "") =>
    \A pw \in Passwords \ {""} :
      view_command([settings EXCEPT !.password = pw]).text = shown.text

----------------------------------------------------------------------------
(* Properties of the extraction outcome and of the tracked handle *)

\* C26: the outcome of a successful extraction tells which strategy succeeded:
\* what a success through the installed system tool hands to the caller differs
\* from what a success of the native library hands to it.
C26_StrategyRecorded ==
  (/\ ex.op = "extract_archive"
   /\ ex.result = "returned"
   /\ ex.log # <<>>
   /\ ex.log[Len(ex.log)] = Ev("system_tool", "ok")) =>
     ExtractionOutcome(ex.log)
       # ExtractionOutcome(extract_archive("7z", TRUE, local_7z, ex.path, ex.common,
                                           "-", FALSE).log)

\* C27: the cleanup of an earlier worker never clears or replaces the handle of a
\* later process that is still running (and that no stop was requested for), so
\* that stop_upload can still terminate it.
C27_LaterHandleKept ==
  [][\A j, p \in 1..MaxJobs :
       (/\ worker[j].pc = "finally" /\ worker'[j].pc = "done"
        /\ j < p
        /\ nyuu_process = p
        /\ proc[p].state = "running" /\ ~proc[p].term)
         => nyuu_process' = p]_vars

============================================================================
